---- MODULE Spec2Model ----
(***************************************************************************)
(* OrthoAlign case workflow: the case record, the workflow log, payments   *)
(* and the request handlers that write them.  Every handler is split at    *)
(* the awaits between its database calls, so two requests interleave the   *)
(* way two Express handlers do; a prisma.$transaction batch is one step.   *)
(***************************************************************************)
EXTENDS Integers, Sequences, FiniteSets, TLC

\* ------------------------------------------------------------------------
\* Bounds of the model
\* ------------------------------------------------------------------------
MaxLog == 6
MaxLogConc == 3
MaxLogTwo == 3

Null == "null"

CaseIds == {"X", "Y"}
\* The case of the specifications that follow a single case.
OneCase == {"X"}
PaymentIds == {"pay1"}
Procs == {1, 2}

\* ------------------------------------------------------------------------
\* Enumerations
\* ------------------------------------------------------------------------
CaseStatus ==
  {"PENDING_PAYMENT", "PENDING_APPROVAL", "OPENED", "ASSIGNED", "IN_DESIGN",
   "PENDING_QC", "QC_REJECTED", "PENDING_CLIENT_REVIEW", "CLIENT_REJECTED",
   "APPROVED", "CANCELLED"}

UserRole == {"CLIENT", "ADMIN", "EMPLOYEE"}

EmployeeType == {"DESIGNER", "QC", "BOTH"}

\* The seeded users: id |-> (role, employeeType) as carried in the JWT.
Users == {"admin", "client1", "client2", "designer1", "qc1", "both"}

roleOf(u) ==
  CASE u = "admin" -> "ADMIN"
    [] u \in {"client1", "client2"} -> "CLIENT"
    [] OTHER -> "EMPLOYEE"

\* The creator of the patient a user names when creating a case: a client
\* names a patient of their own, the administrator a patient that client2
\* has registered (createCase takes any patient id).
patientOwnerOf(u) == IF roleOf(u) = "CLIENT" THEN u ELSE "client2"

employeeTypeOf(u) ==
  CASE u = "designer1" -> "DESIGNER"
    [] u = "qc1" -> "QC"
    [] u = "both" -> "BOTH"
    [] OTHER -> Null

\* ------------------------------------------------------------------------
\* The transition table
\* ------------------------------------------------------------------------
Rule(f, t, roles, typed, types) ==
  [from |-> f, to |-> t, allowedRoles |-> roles,
   hasEmployeeTypes |-> typed, allowedEmployeeTypes |-> types]

\* The rules of the table as a set of records (the table with a rule added
\* is built from it).
tableRules ==
  << Rule("PENDING_PAYMENT", "OPENED", {"ADMIN"}, FALSE, {}),
     Rule("OPENED", "ASSIGNED", {"ADMIN"}, FALSE, {}),
     Rule("ASSIGNED", "IN_DESIGN", {"EMPLOYEE"}, TRUE, {"DESIGNER", "BOTH"}),
     Rule("IN_DESIGN", "PENDING_QC", {"EMPLOYEE"}, TRUE, {"DESIGNER", "BOTH"}),
     Rule("PENDING_QC", "QC_REJECTED", {"EMPLOYEE"}, TRUE, {"QC", "BOTH"}),
     Rule("PENDING_QC", "PENDING_CLIENT_REVIEW", {"EMPLOYEE"}, TRUE, {"QC", "BOTH"}),
     Rule("QC_REJECTED", "IN_DESIGN", {"EMPLOYEE"}, TRUE, {"DESIGNER", "BOTH"}),
     Rule("PENDING_CLIENT_REVIEW", "CLIENT_REJECTED", {"CLIENT"}, FALSE, {}),
     Rule("PENDING_CLIENT_REVIEW", "APPROVED", {"CLIENT"}, FALSE, {}),
     Rule("CLIENT_REJECTED", "IN_DESIGN", {"EMPLOYEE"}, TRUE, {"DESIGNER", "BOTH"}) >>

\* A table with a second rule for PENDING_PAYMENT -> OPENED, open to the
\* client.
statusTransitions_duplicatePair ==
  Append(tableRules, Rule("PENDING_PAYMENT", "OPENED", {"CLIENT"}, FALSE, {}))

\* A table without the rule CLIENT_REJECTED -> IN_DESIGN.
statusTransitions_noClientRework == SubSeq(tableRules, 1, 9)

\* A table whose rule IN_DESIGN -> PENDING_QC names DESIGNER alone.
statusTransitions_designerOnly ==
  [tableRules EXCEPT ![4].allowedEmployeeTypes = {"DESIGNER"}]

\* A table that lets a designer reopen an approved case.
statusTransitions_reopen ==
  Append(tableRules,
         Rule("APPROVED", "IN_DESIGN", {"EMPLOYEE"}, TRUE, {"DESIGNER", "BOTH"}))

statusTransitions == tableRules

\* Indices of the rules for the pair (from, to); find() takes the first.
rulesFor(currentStatus, newStatus) ==
  {i \in DOMAIN statusTransitions :
     /\ statusTransitions[i].from = currentStatus
     /\ statusTransitions[i].to = newStatus}

hasRule(currentStatus, newStatus) == rulesFor(currentStatus, newStatus) # {}

Min(S) == CHOOSE x \in S : \A y \in S : x <= y

\* validateTransition with an administrator override in front of the table
\* lookup.
validateTransition_adminOverride(currentStatus, newStatus, userRole, employeeType) ==
  IF userRole = "ADMIN" THEN TRUE
  ELSE IF rulesFor(currentStatus, newStatus) = {} THEN FALSE
  ELSE LET transition == statusTransitions[Min(rulesFor(currentStatus, newStatus))]
       IN  IF userRole \notin transition.allowedRoles THEN FALSE
           ELSE IF transition.hasEmployeeTypes /\ userRole = "EMPLOYEE"
                THEN employeeType # Null
                     /\ employeeType \in transition.allowedEmployeeTypes
                ELSE TRUE

\* validateTransition that lets a client through when the pair has no rule
\* (the missing-rule check applied to staff only).
validateTransition_noRuleForClient(currentStatus, newStatus, userRole, employeeType) ==
  IF rulesFor(currentStatus, newStatus) = {} THEN userRole = "CLIENT"
  ELSE LET transition == statusTransitions[Min(rulesFor(currentStatus, newStatus))]
       IN  IF userRole \notin transition.allowedRoles THEN FALSE
           ELSE IF transition.hasEmployeeTypes /\ userRole = "EMPLOYEE"
                THEN employeeType # Null
                     /\ employeeType \in transition.allowedEmployeeTypes
                ELSE TRUE

validateTransition(currentStatus, newStatus, userRole, employeeType) ==
  IF rulesFor(currentStatus, newStatus) = {} THEN FALSE
  ELSE LET transition == statusTransitions[Min(rulesFor(currentStatus, newStatus))]
       IN  IF userRole \notin transition.allowedRoles THEN FALSE
           ELSE IF transition.hasEmployeeTypes /\ userRole = "EMPLOYEE"
                THEN employeeType # Null
                     /\ employeeType \in transition.allowedEmployeeTypes
                ELSE TRUE

\* getAvailableTransitions without the check of the employee type.
getAvailableTransitions_roleOnly(currentStatus, userRole, employeeType) ==
  LET keep(t) == t.from = currentStatus /\ userRole \in t.allowedRoles
      kept == SelectSeq(statusTransitions, keep)
  IN  [i \in DOMAIN kept |-> kept[i].to]

\* getAvailableTransitions: the targets of the rules that leave
\* currentStatus and admit the role and employee type, in table order.
getAvailableTransitions(currentStatus, userRole, employeeType) ==
  LET keep(t) ==
        /\ t.from = currentStatus
        /\ userRole \in t.allowedRoles
        /\ (t.hasEmployeeTypes /\ userRole = "EMPLOYEE")
             => (employeeType # Null /\ employeeType \in t.allowedEmployeeTypes)
      kept == SelectSeq(statusTransitions, keep)
  IN  [i \in DOMAIN kept |-> kept[i].to]

\* An update that counts a refinement on the rejection and again on the
\* return to IN_DESIGN.
refinementDelta_onRework(newStatus) ==
  IF newStatus \in {"QC_REJECTED", "CLIENT_REJECTED", "IN_DESIGN"} THEN 1 ELSE 0

\* An update that counts every transition as a refinement.
refinementDelta_everyTransition(newStatus) == 1

\* What the update of transitionCaseStatus adds to refinementCount: its
\* data is {status: newStatus} only, the counter is not written.
refinementDelta(newStatus) == 0

\* ------------------------------------------------------------------------
\* State
\* ------------------------------------------------------------------------
VARIABLES cases, workflowLogs, payments, reqs, resp

vars == <<cases, workflowLogs, payments, reqs, resp>>

NoCase ==
  [exists |-> FALSE, status |-> Null, createdById |-> Null,
   patientOwner |-> Null, designerId |-> Null, qcId |-> Null,
   refinementCount |-> 0]

NoPayment == [exists |-> FALSE, caseId |-> Null, status |-> Null]

Idle ==
  [pc |-> "idle", op |-> Null, c |-> Null, u |-> Null, to |-> Null,
   seen |-> Null, next |-> Null, d |-> Null, q |-> Null, x |-> Null]

\* The response to the last request that has returned: the handler, the
\* case and the status it asked for, and the error message (or OK).  Cleared while a
\* later request is between two awaits.  A query also answers a list (the
\* available target statuses, or the case's workflow logs) to the user by.
NoResp ==
  [op |-> Null, c |-> Null, to |-> Null, result |-> Null, by |-> Null,
   list |-> << >>]

Resp(op, c, to, result) ==
  [op |-> op, c |-> c, to |-> to, result |-> result, by |-> Null,
   list |-> << >>]

Answer(op, c, u, list) ==
  [op |-> op, c |-> c, to |-> Null, result |-> "ok", by |-> u, list |-> list]

LogEntry(from, to, by) ==
  [fromStatus |-> from, toStatus |-> to, performedById |-> by]

Init ==
  /\ cases = [c \in CaseIds |-> NoCase]
  /\ workflowLogs = [c \in CaseIds |-> << >>]
  /\ payments = [x \in PaymentIds |-> NoPayment]
  /\ reqs = [p \in Procs |-> Idle]
  /\ resp = NoResp

\* Error messages of the handlers
OK == "ok"
ErrForbidden == "Forbidden"
ErrCaseNotFound == "Case not found"
ErrPatientNotFound == "Patient not found"
ErrPaymentNotFound == "Payment not found"
ErrInvalidTransition == "Invalid status transition"
ErrNotPendingPayment == "Case is not in PENDING_PAYMENT status"
ErrSubmitStatus == "Case must be in PENDING_PAYMENT status to submit"
ErrSubmitIncomplete == "Submission requirements missing"
ErrApproveStatus == "Case must be in PENDING_APPROVAL status to approve"
ErrAssignStatus == "Case must be in OPENED status to be assigned"
ErrNotAssigned == "Forbidden - not the assigned employee"
ErrRouteStatus == "Cannot act on case in this status"
ErrInternal == "Internal server error"
ErrOwnAccount == "Cannot delete your own account"

Done(p, r) ==
  /\ reqs' = [reqs EXCEPT ![p] = Idle]
  /\ resp' = r

Append1(c, e) == workflowLogs' = [workflowLogs EXCEPT ![c] = Append(@, e)]

HasRoom(c) == Len(workflowLogs[c]) < MaxLog

\* ------------------------------------------------------------------------
\* CaseService.createCase (POST /api/cases)
\* ------------------------------------------------------------------------
\* authorize + patient lookup + prisma.case.create
CreateCaseInsert(p, c, u, patientFound) ==
  /\ reqs[p].pc = "idle"
  /\ ~cases[c].exists
  /\ IF roleOf(u) \notin {"CLIENT", "ADMIN"}
     THEN /\ Done(p, Resp("createCase", Null, Null, ErrForbidden))
          /\ UNCHANGED <<cases, workflowLogs, payments>>
     ELSE IF ~patientFound
     THEN /\ Done(p, Resp("createCase", Null, Null, ErrPatientNotFound))
          /\ UNCHANGED <<cases, workflowLogs, payments>>
     ELSE /\ cases' = [cases EXCEPT ![c] =
                [exists |-> TRUE, status |-> "PENDING_PAYMENT",
                 createdById |-> u, patientOwner |-> patientOwnerOf(u),
                 designerId |-> Null, qcId |-> Null, refinementCount |-> 0]]
          /\ reqs' = [reqs EXCEPT ![p] =
                [Idle EXCEPT !.pc = "createCase:log", !.op = "createCase",
                             !.c = c, !.u = u]]
          /\ resp' = NoResp
          /\ UNCHANGED <<workflowLogs, payments>>

\* prisma.caseWorkflowLog.create of createCase, a separate write
CreateCaseLog(p) ==
  /\ reqs[p].pc = "createCase:log"
  /\ HasRoom(reqs[p].c)
  /\ Append1(reqs[p].c, LogEntry(Null, "PENDING_PAYMENT", reqs[p].u))
  /\ Done(p, Resp("createCase", reqs[p].c, "PENDING_PAYMENT", OK))
  /\ UNCHANGED <<cases, payments>>

\* ------------------------------------------------------------------------
\* PaymentService.createPayment (POST /api/payments)
\* ------------------------------------------------------------------------
CreatePayment(p, x, c, u) ==
  /\ reqs[p].pc = "idle"
  /\ ~payments[x].exists
  /\ IF roleOf(u) \notin {"CLIENT", "ADMIN"}
     THEN /\ Done(p, Resp("createPayment", c, Null, ErrForbidden))
          /\ UNCHANGED <<cases, workflowLogs, payments>>
     ELSE IF ~cases[c].exists
     THEN /\ Done(p, Resp("createPayment", c, Null, ErrCaseNotFound))
          /\ UNCHANGED <<cases, workflowLogs, payments>>
     ELSE IF cases[c].status # "PENDING_PAYMENT"
     THEN /\ Done(p, Resp("createPayment", c, Null, ErrNotPendingPayment))
          /\ UNCHANGED <<cases, workflowLogs, payments>>
     ELSE /\ payments' = [payments EXCEPT ![x] =
                [exists |-> TRUE, caseId |-> c, status |-> "PENDING"]]
          /\ Done(p, Resp("createPayment", c, Null, OK))
          /\ UNCHANGED <<cases, workflowLogs>>

\* ------------------------------------------------------------------------
\* PaymentService.markPaymentCompleted
\*   (POST /api/payments/:id/complete by an admin, POST /api/payments/webhook
\*    by anyone: u = Null is the unauthenticated webhook caller)
\* ------------------------------------------------------------------------
MarkPaymentCompletedRead(p, x, u) ==
  /\ reqs[p].pc = "idle"
  /\ IF u # Null /\ roleOf(u) # "ADMIN"
     THEN /\ Done(p, Resp("markPaymentCompleted", Null, Null, ErrForbidden))
     ELSE IF ~payments[x].exists
     THEN /\ Done(p, Resp("markPaymentCompleted", Null, Null, ErrPaymentNotFound))
     ELSE IF payments[x].status = "COMPLETED"
     THEN /\ Done(p, Resp("markPaymentCompleted", payments[x].caseId, Null, OK))
     ELSE /\ reqs' = [reqs EXCEPT ![p] =
                [Idle EXCEPT !.pc = "complete:tx", !.op = "markPaymentCompleted",
                             !.c = payments[x].caseId, !.u = u, !.x = x]]
          /\ resp' = NoResp
  /\ UNCHANGED <<cases, workflowLogs, payments>>

MarkPaymentCompletedTx(p) ==
  /\ reqs[p].pc = "complete:tx"
  /\ HasRoom(reqs[p].c)
  /\ payments' = [payments EXCEPT ![reqs[p].x].status = "COMPLETED"]
  /\ cases' = [cases EXCEPT ![reqs[p].c].status = "OPENED"]
  /\ Append1(reqs[p].c,
        LogEntry("PENDING_PAYMENT", "OPENED", cases[reqs[p].c].createdById))
  /\ Done(p, Resp("markPaymentCompleted", reqs[p].c, "OPENED", OK))

\* ------------------------------------------------------------------------
\* CaseSubmissionService.submitCase (POST /api/cases/:id/submit)
\*   complete: payment proof, files and prescription are all present
\* ------------------------------------------------------------------------
SubmitCaseRead(p, c, u, complete) ==
  /\ reqs[p].pc = "idle"
  /\ IF roleOf(u) \notin {"CLIENT", "ADMIN"}
     THEN Done(p, Resp("submitCase", c, Null, ErrForbidden))
     ELSE IF ~cases[c].exists
     THEN Done(p, Resp("submitCase", c, Null, ErrCaseNotFound))
     ELSE IF roleOf(u) = "CLIENT" /\ cases[c].createdById # u
     THEN Done(p, Resp("submitCase", c, Null, ErrForbidden))
     ELSE IF cases[c].status # "PENDING_PAYMENT"
     THEN Done(p, Resp("submitCase", c, Null, ErrSubmitStatus))
     ELSE IF ~complete
     THEN Done(p, Resp("submitCase", c, Null, ErrSubmitIncomplete))
     ELSE /\ reqs' = [reqs EXCEPT ![p] =
                [Idle EXCEPT !.pc = "submit:tx", !.op = "submitCase", !.c = c,
                             !.u = u]]
          /\ resp' = NoResp
  /\ UNCHANGED <<cases, workflowLogs, payments>>

SubmitCaseTx(p) ==
  /\ reqs[p].pc = "submit:tx"
  /\ HasRoom(reqs[p].c)
  /\ cases' = [cases EXCEPT ![reqs[p].c].status = "PENDING_APPROVAL"]
  /\ Append1(reqs[p].c, LogEntry("PENDING_PAYMENT", "PENDING_APPROVAL", reqs[p].u))
  /\ Done(p, Resp("submitCase", reqs[p].c, "PENDING_APPROVAL", OK))
  /\ UNCHANGED payments

\* ------------------------------------------------------------------------
\* CaseSubmissionService.approvePaymentAndAssign
\*   (POST /api/cases/:id/approve-payment)
\* ------------------------------------------------------------------------
ApprovePaymentAndAssignRead(p, c, d, q, u) ==
  /\ reqs[p].pc = "idle"
  /\ IF roleOf(u) # "ADMIN"
     THEN Done(p, Resp("approvePaymentAndAssign", c, Null, ErrForbidden))
     ELSE IF ~cases[c].exists
     THEN Done(p, Resp("approvePaymentAndAssign", c, Null, ErrCaseNotFound))
     ELSE IF cases[c].status # "PENDING_APPROVAL"
     THEN Done(p, Resp("approvePaymentAndAssign", c, Null, ErrApproveStatus))
     ELSE /\ reqs' = [reqs EXCEPT ![p] =
                [Idle EXCEPT !.pc = "approve:tx", !.op = "approvePaymentAndAssign",
                             !.c = c, !.u = u, !.d = d, !.q = q]]
          /\ resp' = NoResp
  /\ UNCHANGED <<cases, workflowLogs, payments>>

ApprovePaymentAndAssignTx(p) ==
  /\ reqs[p].pc = "approve:tx"
  /\ HasRoom(reqs[p].c)
  /\ cases' = [cases EXCEPT ![reqs[p].c] =
        [@ EXCEPT !.status = "IN_DESIGN", !.designerId = reqs[p].d,
                  !.qcId = reqs[p].q]]
  /\ Append1(reqs[p].c, LogEntry("PENDING_APPROVAL", "IN_DESIGN", reqs[p].u))
  /\ Done(p, Resp("approvePaymentAndAssign", reqs[p].c, "IN_DESIGN", OK))
  /\ UNCHANGED payments

\* ------------------------------------------------------------------------
\* CaseService.assignCase (POST /api/cases/:id/assign)
\* ------------------------------------------------------------------------
AssignCaseRead(p, c, d, q, u) ==
  /\ reqs[p].pc = "idle"
  /\ IF roleOf(u) # "ADMIN"
     THEN Done(p, Resp("assignCase", c, Null, ErrForbidden))
     ELSE IF ~cases[c].exists
     THEN Done(p, Resp("assignCase", c, Null, ErrCaseNotFound))
     ELSE IF cases[c].status # "OPENED"
     THEN Done(p, Resp("assignCase", c, Null, ErrAssignStatus))
     ELSE /\ reqs' = [reqs EXCEPT ![p] =
                [Idle EXCEPT !.pc = "assign:tx", !.op = "assignCase",
                             !.c = c, !.u = u, !.d = d, !.q = q]]
          /\ resp' = NoResp
  /\ UNCHANGED <<cases, workflowLogs, payments>>

AssignCaseTx(p) ==
  /\ reqs[p].pc = "assign:tx"
  /\ HasRoom(reqs[p].c)
  /\ cases' = [cases EXCEPT ![reqs[p].c] =
        [@ EXCEPT !.status = "ASSIGNED", !.designerId = reqs[p].d,
                  !.qcId = reqs[p].q]]
  /\ Append1(reqs[p].c, LogEntry("OPENED", "ASSIGNED", reqs[p].u))
  /\ Done(p, Resp("assignCase", reqs[p].c, "ASSIGNED", OK))
  /\ UNCHANGED payments

\* ------------------------------------------------------------------------
\* WorkflowService.transitionCaseStatus
\* ------------------------------------------------------------------------
\* findUnique + validateTransition, for the call (op, c, newStatus, u); next
\* is the status of the call the route makes after this one, if any.
\* The outcome of the two checks of transitionCaseStatus on the current
\* store: the error it throws, or OK when it goes on to the transaction.
\* The checks with an error of its own for an actor the rule does not
\* admit.
transitionCheck_forbidden(c, newStatus, userRole, employeeType) ==
  IF ~cases[c].exists THEN ErrCaseNotFound
  ELSE IF ~hasRule(cases[c].status, newStatus) THEN ErrInvalidTransition
  ELSE IF ~validateTransition(cases[c].status, newStatus, userRole, employeeType)
  THEN ErrForbidden
  ELSE OK

transitionCheck(c, newStatus, userRole, employeeType) ==
  IF ~cases[c].exists THEN ErrCaseNotFound
  ELSE IF ~validateTransition(cases[c].status, newStatus, userRole, employeeType)
  THEN ErrInvalidTransition
  ELSE OK

\* A service that records the refused attempt in the workflow log before
\* it throws.
TransitionRead_logsRefusal(p, op, c, newStatus, u, next) ==
  IF transitionCheck(c, newStatus, roleOf(u), employeeTypeOf(u)) = ErrInvalidTransition
       /\ HasRoom(c)
  THEN /\ Done(p, Resp(op, c, newStatus, ErrInvalidTransition))
       /\ Append1(c, LogEntry(cases[c].status, cases[c].status, u))
       /\ UNCHANGED <<cases, payments>>
  ELSE /\ IF transitionCheck(c, newStatus, roleOf(u), employeeTypeOf(u)) # OK
          THEN Done(p, Resp(op, c, newStatus, transitionCheck(c, newStatus, roleOf(u), employeeTypeOf(u))))
          ELSE /\ reqs' = [reqs EXCEPT ![p] =
                     [Idle EXCEPT !.pc = "transition:tx", !.op = op, !.c = c,
                                  !.u = u, !.to = newStatus, !.next = next,
                                  !.seen = cases[c].status]]
               /\ resp' = NoResp
       /\ UNCHANGED <<cases, workflowLogs, payments>>

TransitionRead(p, op, c, newStatus, u, next) ==
  /\ IF transitionCheck(c, newStatus, roleOf(u), employeeTypeOf(u)) # OK
     THEN Done(p, Resp(op, c, newStatus, transitionCheck(c, newStatus, roleOf(u), employeeTypeOf(u))))
     ELSE /\ reqs' = [reqs EXCEPT ![p] =
                [Idle EXCEPT !.pc = "transition:tx", !.op = op, !.c = c,
                             !.u = u, !.to = newStatus, !.next = next,
                             !.seen = cases[c].status]]
          /\ resp' = NoResp
  /\ UNCHANGED <<cases, workflowLogs, payments>>

\* The update of the case alone, its log entry left to a later write that
\* does not come.
TransitionTx_statusOnly(p) ==
  /\ reqs[p].pc = "transition:tx"
  /\ cases' = [cases EXCEPT ![reqs[p].c].status = reqs[p].to]
  /\ Done(p, Resp(reqs[p].op, reqs[p].c, reqs[p].to, ErrInternal))
  /\ UNCHANGED <<workflowLogs, payments>>

TransitionTx_updateMany(p) ==
  /\ reqs[p].pc = "transition:tx"
  /\ HasRoom(reqs[p].c)
  /\ cases' = [c \in CaseIds |->
        IF c = reqs[p].c \/ (cases[c].exists /\ cases[c].status = reqs[p].seen)
        THEN [cases[c] EXCEPT !.status = reqs[p].to,
                              !.refinementCount = @ + refinementDelta(reqs[p].to)]
        ELSE cases[c]]
  /\ Append1(reqs[p].c, LogEntry(reqs[p].seen, reqs[p].to, reqs[p].u))
  /\ IF reqs[p].next = Null
     THEN Done(p, Resp(reqs[p].op, reqs[p].c, reqs[p].to, OK))
     ELSE /\ reqs' = [reqs EXCEPT ![p] =
                [@ EXCEPT !.pc = "transition:svc", !.to = reqs[p].next,
                          !.next = Null, !.seen = Null]]
          /\ resp' = NoResp
  /\ UNCHANGED payments

\* the $transaction: case.update {status} and caseWorkflowLog.create
TransitionTx(p) ==
  /\ reqs[p].pc = "transition:tx"
  /\ HasRoom(reqs[p].c)
  /\ cases' = [cases EXCEPT ![reqs[p].c] =
        [@ EXCEPT !.status = reqs[p].to,
                  !.refinementCount = @ + refinementDelta(reqs[p].to)]]
  /\ Append1(reqs[p].c, LogEntry(reqs[p].seen, reqs[p].to, reqs[p].u))
  /\ IF reqs[p].next = Null
     THEN Done(p, Resp(reqs[p].op, reqs[p].c, reqs[p].to, OK))
     ELSE /\ reqs' = [reqs EXCEPT ![p] =
                [@ EXCEPT !.pc = "transition:svc", !.to = reqs[p].next,
                          !.next = Null, !.seen = Null]]
          /\ resp' = NoResp
  /\ UNCHANGED payments

\* the service call of a route that has awaited a read of its own before it
TransitionSvc(p) ==
  /\ reqs[p].pc = "transition:svc"
  /\ TransitionRead(p, reqs[p].op, reqs[p].c, reqs[p].to, reqs[p].u, reqs[p].next)

\* POST /api/cases/:id/transition: no check of its own before the service
TransitionRoute(p, c, newStatus, u) ==
  /\ reqs[p].pc = "idle"
  /\ TransitionRead(p, "transition", c, newStatus, u, Null)

\* The employee routes read the case, check the assignee and the status,
\* then call the service.
EmployeeRoute(p, op, c, u, types, assignee, status, newStatus, next) ==
  /\ reqs[p].pc = "idle"
  /\ IF roleOf(u) # "EMPLOYEE" \/ employeeTypeOf(u) \notin types
     THEN Done(p, Resp(op, c, newStatus, ErrForbidden))
     ELSE IF ~cases[c].exists
     THEN Done(p, Resp(op, c, newStatus, ErrCaseNotFound))
     ELSE IF assignee # u
     THEN Done(p, Resp(op, c, newStatus, ErrNotAssigned))
     ELSE IF cases[c].status # status
     THEN Done(p, Resp(op, c, newStatus, ErrRouteStatus))
     ELSE /\ reqs' = [reqs EXCEPT ![p] =
                [Idle EXCEPT !.pc = "transition:svc", !.op = op, !.c = c,
                             !.u = u, !.to = newStatus, !.next = next]]
          /\ resp' = NoResp
  /\ UNCHANGED <<cases, workflowLogs, payments>>

\* POST /api/designer/cases/:id/submit-to-qc
SubmitToQc(p, c, u) ==
  EmployeeRoute(p, "submitToQc", c, u, {"DESIGNER", "BOTH"},
                cases[c].designerId, "IN_DESIGN", "PENDING_QC", Null)

\* POST /api/qc/cases/:id/approve
QcApprove(p, c, u) ==
  EmployeeRoute(p, "qcApprove", c, u, {"QC", "BOTH"},
                cases[c].qcId, "PENDING_QC", "PENDING_CLIENT_REVIEW", Null)

\* POST /api/qc/cases/:id/reject: two service calls in a row
QcReject(p, c, u) ==
  EmployeeRoute(p, "qcReject", c, u, {"QC", "BOTH"},
                cases[c].qcId, "PENDING_QC", "QC_REJECTED", "IN_DESIGN")

\* ------------------------------------------------------------------------
\* Queries
\* ------------------------------------------------------------------------
Reverse(s) == [i \in DOMAIN s |-> s[Len(s) + 1 - i]]

\* The workflowLogs of getCaseById in ascending order of createdAt.
workflowLogsOf_ascending(c) == workflowLogs[c]

\* The workflowLogs that getCaseById includes: orderBy createdAt desc.
workflowLogsOf(c) == Reverse(workflowLogs[c])

\* GET /api/cases/:id
GetCaseRoute(p, c, u) ==
  /\ reqs[p].pc = "idle"
  /\ IF ~cases[c].exists
     THEN Done(p, Resp("getCaseById", c, Null, ErrCaseNotFound))
     ELSE IF roleOf(u) = "CLIENT" /\ cases[c].createdById # u
     THEN Done(p, Resp("getCaseById", c, Null, ErrForbidden))
     ELSE IF /\ roleOf(u) = "EMPLOYEE"
             /\ cases[c].designerId # u
             /\ cases[c].qcId # u
     THEN Done(p, Resp("getCaseById", c, Null, ErrForbidden))
     ELSE Done(p, Answer("getCaseById", c, u, workflowLogsOf(c)))
  /\ UNCHANGED <<cases, workflowLogs, payments>>

\* A query that leaves a trace of itself in the workflow log.
AvailableTransitionsRoute_logged(p, c, u) ==
  /\ reqs[p].pc = "idle"
  /\ cases[c].exists
  /\ HasRoom(c)
  /\ Done(p, Answer("availableTransitions", c, u,
        getAvailableTransitions(cases[c].status, roleOf(u), employeeTypeOf(u))))
  /\ Append1(c, LogEntry(cases[c].status, cases[c].status, u))
  /\ UNCHANGED <<cases, payments>>

\* GET /api/cases/:id/available-transitions
AvailableTransitionsRoute(p, c, u) ==
  /\ reqs[p].pc = "idle"
  /\ IF ~cases[c].exists
     THEN Done(p, Resp("availableTransitions", c, Null, ErrCaseNotFound))
     ELSE Done(p, Answer("availableTransitions", c, u,
            getAvailableTransitions(cases[c].status, roleOf(u), employeeTypeOf(u))))
  /\ UNCHANGED <<cases, workflowLogs, payments>>

\* ------------------------------------------------------------------------
\* DELETE /api/users/:id
\* ------------------------------------------------------------------------
\* Rows that reference the user with ON DELETE RESTRICT: cases.createdById,
\* case_assignments (the designer and the reviewer of an assigned case) and
\* case_workflow_logs.performedById.
Restricted(target) ==
  \E c \in CaseIds :
    /\ cases[c].exists
    /\ \/ cases[c].createdById = target
       \/ cases[c].designerId = target
       \/ cases[c].qcId = target
       \/ \E i \in DOMAIN workflowLogs[c] : workflowLogs[c][i].performedById = target

\* The cases that go with the user: patients.createdById and
\* cases.patientId are ON DELETE CASCADE.
CascadedFrom(target) ==
  {c \in CaseIds : cases[c].exists /\ cases[c].patientOwner = target}

\* prisma.user.delete of a user who is there (a row of the store still
\* names them).  case_workflow_logs.caseId and payments.caseId are
\* ON DELETE CASCADE.
DeleteUser(p, target, u) ==
  /\ reqs[p].pc = "idle"
  /\ Restricted(target) \/ CascadedFrom(target) # {}
  /\ IF roleOf(u) # "ADMIN"
     THEN /\ Done(p, Resp("deleteUser", Null, Null, ErrForbidden))
          /\ UNCHANGED <<cases, workflowLogs, payments>>
     ELSE IF target = u
     THEN /\ Done(p, Resp("deleteUser", Null, Null, ErrOwnAccount))
          /\ UNCHANGED <<cases, workflowLogs, payments>>
     ELSE IF Restricted(target)
     THEN /\ Done(p, Resp("deleteUser", Null, Null, ErrInternal))
          /\ UNCHANGED <<cases, workflowLogs, payments>>
     ELSE /\ cases' = [c \in CaseIds |->
                IF c \in CascadedFrom(target) THEN NoCase ELSE cases[c]]
          /\ workflowLogs' = [c \in CaseIds |->
                IF c \in CascadedFrom(target) THEN << >> ELSE workflowLogs[c]]
          /\ payments' = [x \in PaymentIds |->
                IF payments[x].exists /\ payments[x].caseId \in CascadedFrom(target)
                THEN NoPayment ELSE payments[x]]
          /\ Done(p, Resp("deleteUser", Null, Null, OK))

\* A database call of a handler rejects, or the process dies, after an
\* earlier await of the same handler: the rest of the handler does not run.
Abort(p) ==
  /\ reqs[p].pc # "idle"
  /\ Done(p, Resp(reqs[p].op, reqs[p].c, Null, ErrInternal))
  /\ UNCHANGED <<cases, workflowLogs, payments>>

\* ------------------------------------------------------------------------
\* Specification
\* ------------------------------------------------------------------------
\* Inputs of the requests.  Creators: one client and one user the route
\* refuses.  Assignments: a designer and a reviewer of a single capability,
\* or the employee of type BOTH in both seats.
Creators == {"client1", "designer1"}
Assignments == {<<"designer1", "qc1">>, <<"both", "both">>}
\* Callers of the admin-only routes: the admin and one user they refuse.
Callers == {"admin", "client1"}

\* The requests that can arrive at handler slot p: their cases are drawn
\* from C, their users from U, their assignments from A, their statuses from S and the outcome
\* of the lookups outside the case (patient, uploaded files) from F.
Start(p, C, U, A, S, F) ==
  \/ \E c \in C, u \in U \cap Creators, f \in F : CreateCaseInsert(p, c, u, f)
  \/ \E x \in PaymentIds, c \in C, u \in U : CreatePayment(p, x, c, u)
  \/ \E x \in PaymentIds, u \in (U \cap Callers) \cup {Null} :
       MarkPaymentCompletedRead(p, x, u)
  \/ \E c \in C, u \in U, f \in F : SubmitCaseRead(p, c, u, f)
  \/ \E c \in C, a \in A, u \in U \cap Callers :
       ApprovePaymentAndAssignRead(p, c, a[1], a[2], u)
  \/ \E c \in C, a \in A, u \in U \cap Callers :
       AssignCaseRead(p, c, a[1], a[2], u)
  \/ \E c \in C, s \in S, u \in U : TransitionRoute(p, c, s, u)
  \/ \E c \in C, u \in U : SubmitToQc(p, c, u)
  \/ \E c \in C, u \in U : QcApprove(p, c, u)
  \/ \E c \in C, u \in U : QcReject(p, c, u)

\* The steps of a request that has already awaited once.
Continue(p) ==
  \/ CreateCaseLog(p)
  \/ MarkPaymentCompletedTx(p)
  \/ SubmitCaseTx(p)
  \/ ApprovePaymentAndAssignTx(p)
  \/ AssignCaseTx(p)
  \/ TransitionSvc(p)
  \/ TransitionTx(p)

\* One request at a time: every handler runs to its end, or to the await
\* at which it is abandoned, before the next request arrives.
Next == Start(1, OneCase, Users, Assignments, CaseStatus, BOOLEAN) \/ Continue(1)

Spec == Init /\ [][Next]_vars

\* Two requests in flight.  A new request takes the lowest free slot (the
\* slots are interchangeable), and only requests that get past their first
\* read are issued: one that is refused there leaves the store as it is.
ConcUsers == {"admin", "client1", "designer1", "qc1"}
ConcAssignments == {<<"designer1", "qc1">>}

Free(p) == \A r \in Procs : r < p => reqs[r].pc # "idle"

Accepted(p) == reqs'[p].pc # "idle" \/ payments' # payments

Short == \A c \in CaseIds : Len(workflowLogs'[c]) <= MaxLogConc

NextConc ==
  \E p \in Procs :
    \/ Free(p) /\ Start(p, OneCase, ConcUsers, ConcAssignments, CaseStatus, {TRUE}) /\ Accepted(p)
    \/ Continue(p) /\ Short
    \/ Abort(p)

SpecConc == Init /\ [][NextConc]_vars

\* One request at a time, with failures and with the queries.  Only
\* requests that get past their first read are issued.
Query(p) ==
  \/ \E c \in OneCase, u \in Users : GetCaseRoute(p, c, u)
  \/ \E c \in OneCase, u \in Users : AvailableTransitionsRoute(p, c, u)

NextSeq ==
  \/ Start(1, OneCase, ConcUsers, ConcAssignments, CaseStatus, {TRUE}) /\ Accepted(1)
  \/ Continue(1)
  \/ Abort(1)
  \/ Query(1)

SpecSeq == Init /\ [][NextSeq]_vars

\* Two cases, one request at a time, with failures.  Only requests that
\* get past their first read are issued.
ShortTwo == \A c \in CaseIds : Len(workflowLogs'[c]) <= MaxLogTwo

NextTwo ==
  \/ Start(1, CaseIds, ConcUsers, ConcAssignments, CaseStatus, {TRUE}) /\ Accepted(1)
  \/ Continue(1) /\ ShortTwo
  \/ Abort(1)

SpecTwo == Init /\ [][NextTwo]_vars

\* One request at a time, accepted requests only, with the employee of
\* type BOTH among the callers.
StaffUsers == {"admin", "client1", "designer1", "qc1", "both"}

NextStaff ==
  \/ Start(1, OneCase, StaffUsers, ConcAssignments, CaseStatus, {TRUE}) /\ Accepted(1)
  \/ Continue(1)

SpecStaff == Init /\ [][NextStaff]_vars

\* One request at a time, with the administrator creating cases for the
\* patients of a client and deleting users.
NextDel ==
  \/ \E c \in OneCase : CreateCaseInsert(1, c, "admin", TRUE)
  \/ Start(1, OneCase, ConcUsers, ConcAssignments, CaseStatus, {TRUE}) /\ Accepted(1)
  \/ Continue(1)
  \/ \E target \in Users, u \in Callers : DeleteUser(1, target, u)

SpecDel == Init /\ [][NextDel]_vars

\* ------------------------------------------------------------------------
\* Derived views
\* ------------------------------------------------------------------------
Rejected == {"QC_REJECTED", "CLIENT_REJECTED"}

Last(c) == workflowLogs[c][Len(workflowLogs[c])]

Quiescent == \A p \in Procs : reqs[p].pc = "idle"

\* The step appends exactly one entry to the log of case c.
Appends(c) ==
  /\ Len(workflowLogs'[c]) = Len(workflowLogs[c]) + 1
  /\ SubSeq(workflowLogs'[c], 1, Len(workflowLogs[c])) = workflowLogs[c]

Appended(c) == workflowLogs'[c][Len(workflowLogs'[c])]

rejectedEntries(c) ==
  Cardinality({i \in DOMAIN workflowLogs[c] : workflowLogs[c][i].toStatus \in Rejected})

RECURSIVE SumOver(_, _)
SumOver(f, S) ==
  IF S = {} THEN 0
  ELSE LET c == CHOOSE c \in S : TRUE IN f[c] + SumOver(f, S \ {c})

casesOf(clientId) ==
  {c \in CaseIds : cases[c].exists /\ cases[c].createdById = clientId}

\* DashboardService.getClientDashboard: the sum of the cached counters
totalRefinements(clientId) ==
  SumOver([c \in CaseIds |-> cases[c].refinementCount], casesOf(clientId))

\* The same count taken from the log, with no window
rejectedEntriesOf(clientId) ==
  SumOver([c \in CaseIds |-> rejectedEntries(c)], casesOf(clientId))

\* The two edges the submission service writes without the table.
SubmissionEdges ==
  {<<"PENDING_PAYMENT", "PENDING_APPROVAL">>, <<"PENDING_APPROVAL", "IN_DESIGN">>}

\* ------------------------------------------------------------------------
\* Claims
\* ------------------------------------------------------------------------

\* C1: whenever no request is in progress, every case has audit entries and
\* the toStatus of its latest entry equals the stored status.
C1_LogReplayGivesStatus ==
  Quiescent =>
    \A c \in CaseIds :
      cases[c].exists =>
        /\ Len(workflowLogs[c]) > 0
        /\ Last(c).toStatus = cases[c].status

\* C2: every step that records a transition to QC_REJECTED or
\* CLIENT_REJECTED raises the case's refinementCount by exactly 1.
C2_RejectionAddsOne ==
  [][\A c \in CaseIds :
       (Appends(c) /\ Appended(c).toStatus \in Rejected)
         => cases'[c].refinementCount = cases[c].refinementCount + 1]_vars

\* C3: refinementCount is 0 when the case is created, no step lowers it,
\* and a step that does not record a transition to a rejected status leaves
\* it as it was.
C3_RefinementCountMonotone ==
  [][\A c \in CaseIds :
       /\ cases'[c].refinementCount >= cases[c].refinementCount
       /\ (~cases[c].exists /\ cases'[c].exists) => cases'[c].refinementCount = 0
       /\ ~(Appends(c) /\ Appended(c).toStatus \in Rejected)
            => cases'[c].refinementCount = cases[c].refinementCount]_vars

\* A case that went through the whole flow to APPROVED with its counter
\* still at the value creation gave it.
C3_Witness ==
  /\ cases["X"].status = "APPROVED"
  /\ Len(workflowLogs["X"]) = 6
  /\ cases["X"].refinementCount = 0

\* C4: for every case the number of audit entries whose toStatus is a
\* rejected status equals refinementCount, and so the dashboard's
\* totalRefinements equals the count of such entries of the client's cases.
C4_CounterMatchesLog ==
  /\ \A c \in CaseIds : cases[c].exists => rejectedEntries(c) = cases[c].refinementCount
  /\ \A u \in Users : totalRefinements(u) = rejectedEntriesOf(u)

C7_QcRejectIsTwoHops ==
  (/\ resp.op = "qcReject"
   /\ resp.result \notin {ErrForbidden, ErrCaseNotFound, ErrNotAssigned, ErrRouteStatus})
    => /\ resp.result = OK
       /\ cases[resp.c].status = "IN_DESIGN"
       /\ Len(workflowLogs[resp.c]) >= 2
       /\ workflowLogs[resp.c][Len(workflowLogs[resp.c]) - 1].fromStatus = "PENDING_QC"
       /\ workflowLogs[resp.c][Len(workflowLogs[resp.c]) - 1].toStatus = "QC_REJECTED"
       /\ Last(resp.c).fromStatus = "QC_REJECTED"
       /\ Last(resp.c).toStatus = "IN_DESIGN"

\* C8: when a transition request to CLIENT_REJECTED has returned OK, the
\* case is in IN_DESIGN and its log ends with PENDING_CLIENT_REVIEW ->
\* CLIENT_REJECTED, CLIENT_REJECTED -> IN_DESIGN.
C8_ClientRejectIsTwoHops ==
  (resp.op = "transition" /\ resp.to = "CLIENT_REJECTED" /\ resp.result = OK)
    => /\ cases[resp.c].status = "IN_DESIGN"
       /\ Len(workflowLogs[resp.c]) >= 2
       /\ workflowLogs[resp.c][Len(workflowLogs[resp.c]) - 1].toStatus = "CLIENT_REJECTED"
       /\ Last(resp.c).fromStatus = "CLIENT_REJECTED"
       /\ Last(resp.c).toStatus = "IN_DESIGN"

\* A transition call on the case of slot p has returned OK after p read
\* the status, and it started from the status p read: its entry is the
\* latest of the log and its fromStatus is what p holds.
OvertakenBySameStart(p) ==
  /\ reqs[p].pc = "transition:tx"
  /\ resp.op = "transition" /\ resp.result = OK /\ resp.c = reqs[p].c
  /\ Len(workflowLogs[reqs[p].c]) > 0
  /\ Last(reqs[p].c).toStatus = resp.to
  /\ Last(reqs[p].c).fromStatus = reqs[p].seen

\* C9: of two transition calls that read the same starting status of a
\* case only one is applied: once one of them has returned OK, the other
\* does not write its status and its audit entry (it ends in a conflict).
C9_OneOfTwoRacingTransitionsWins ==
  [][\A p \in Procs :
       OvertakenBySameStart(p)
         => ~(Appends(reqs[p].c) /\ reqs'[p].pc # "transition:tx")]_vars

\* The seat a rule is for: the designer's when its employee types include
\* DESIGNER, the reviewer's when they include QC.
seatOf(c, from, to) ==
  LET rule == statusTransitions[Min(rulesFor(from, to))]
  IN  IF "DESIGNER" \in rule.allowedEmployeeTypes THEN cases[c].designerId
      ELSE cases[c].qcId

\* C10: every entry an employee writes under a rule that names the EMPLOYEE
\* role is written by the employee assigned to the seat of that rule.
C10_EmployeeMustBeAssigned ==
  [][\A c \in CaseIds :
       (/\ Appends(c)
        /\ Appended(c).fromStatus # Null
        /\ roleOf(Appended(c).performedById) = "EMPLOYEE"
        /\ hasRule(Appended(c).fromStatus, Appended(c).toStatus))
         => Appended(c).performedById
              = seatOf(c, Appended(c).fromStatus, Appended(c).toStatus)]_vars

\* C11: every entry a user of role CLIENT writes from PENDING_CLIENT_REVIEW
\* (the approval or the rejection of the design) is written by the creator
\* of the case.
C11_ClientMustOwnTheCase ==
  [][\A c \in CaseIds :
       (/\ Appends(c)
        /\ Appended(c).fromStatus = "PENDING_CLIENT_REVIEW"
        /\ roleOf(Appended(c).performedById) = "CLIENT")
         => Appended(c).performedById = cases[c].createdById]_vars

\* The service-level operations that go through transitionCaseStatus.
TransitionOps == {"transition", "submitToQc", "qcApprove", "qcReject"}

\* C12: while a case is APPROVED, transitionCaseStatus throws the
\* invalid-transition error for every requested status, role and employee
\* type, and no transition call that returned OK started from APPROVED.
C12_ApprovedIsTerminal ==
  /\ \A c \in CaseIds, t \in CaseStatus, r \in UserRole, e \in EmployeeType \cup {Null} :
       (cases[c].exists /\ cases[c].status = "APPROVED")
         => transitionCheck(c, t, r, e) = ErrInvalidTransition
  /\ (resp.op \in TransitionOps /\ resp.result = OK)
       => Last(resp.c).fromStatus # "APPROVED"

\* Scenario D: the case is APPROVED and a further transition request has
\* just been refused.
C12_Witness ==
  /\ cases["X"].status = "APPROVED"
  /\ resp = Resp("transition", "X", "IN_DESIGN", ErrInvalidTransition)

C14_CreationEntryIsFirst ==
  Quiescent =>
    \A c \in CaseIds :
      cases[c].exists =>
        /\ Len(workflowLogs[c]) > 0
        /\ workflowLogs[c][1].fromStatus = Null
        /\ workflowLogs[c][1].toStatus = "PENDING_PAYMENT"

\* The QC reject request of slot p has made its first hop and not yet its
\* second.
BetweenHops(p) ==
  /\ reqs[p].op = "qcReject"
  /\ reqs[p].pc = "transition:svc"
  /\ reqs[p].to = "IN_DESIGN"

\* C15: (a) a QC reject request that ends between its two hops leaves the
\* case in QC_REJECTED with the rejection entry PENDING_QC -> QC_REJECTED
\* as its latest and nothing else written; (b) whenever a case rests in
\* QC_REJECTED, transitionCaseStatus accepts QC_REJECTED -> IN_DESIGN from
\* an employee of type DESIGNER or BOTH; (c) the step that applies it puts
\* the case in IN_DESIGN, makes the log end with the two entries
\* PENDING_QC -> QC_REJECTED, QC_REJECTED -> IN_DESIGN and leaves
\* refinementCount as it was.
C15_SecondHopCanBeResumed ==
  [][\A c \in CaseIds :
       /\ \A p \in Procs :
            (BetweenHops(p) /\ reqs[p].c = c /\ reqs'[p].pc = "idle")
              => /\ cases'[c].status = "QC_REJECTED"
                 /\ workflowLogs'[c] = workflowLogs[c]
                 /\ Last(c).fromStatus = "PENDING_QC"
                 /\ Last(c).toStatus = "QC_REJECTED"
       /\ (cases[c].exists /\ cases[c].status = "QC_REJECTED")
            => /\ transitionCheck(c, "IN_DESIGN", "EMPLOYEE", "DESIGNER") = OK
               /\ transitionCheck(c, "IN_DESIGN", "EMPLOYEE", "BOTH") = OK
       /\ (Appends(c) /\ Appended(c).fromStatus = "QC_REJECTED")
            => /\ Appended(c).toStatus = "IN_DESIGN"
               /\ cases'[c].status = "IN_DESIGN"
               /\ Last(c).fromStatus = "PENDING_QC"
               /\ Last(c).toStatus = "QC_REJECTED"
               /\ cases'[c].refinementCount = cases[c].refinementCount]_vars

\* The QC reject request failed between its hops: the case rests in
\* QC_REJECTED with the rejection as its latest entry.
C15_Witness ==
  /\ resp = Resp("qcReject", "X", Null, ErrInternal)
  /\ cases["X"].status = "QC_REJECTED"
  /\ Last("X").fromStatus = "PENDING_QC"
  /\ Last("X").toStatus = "QC_REJECTED"

\* The second hop was then made by the assigned designer through the
\* transition route.
C15_Resumed ==
  /\ resp = Resp("transition", "X", "IN_DESIGN", OK)
  /\ cases["X"].status = "IN_DESIGN"
  /\ Len(workflowLogs["X"]) = 6
  /\ workflowLogs["X"][5].toStatus = "QC_REJECTED"
  /\ workflowLogs["X"][5].performedById = "qc1"
  /\ Last("X").performedById = "designer1"

C17_AdminCanCancel ==
  \A c \in CaseIds :
    (cases[c].exists /\ cases[c].status \notin {"APPROVED", "CANCELLED"})
      => transitionCheck(c, "CANCELLED", "ADMIN", Null) = OK

\* C18: a step that answers an availableTransitions query leaves every
\* case, every workflow log and every payment as it was, and when the
\* previous step answered the same query for the same case, role and
\* employee type, the two lists are equal.
C18_AvailableTransitionsIsPure ==
  [][resp'.op = "availableTransitions"
       => /\ cases' = cases
          /\ workflowLogs' = workflowLogs
          /\ payments' = payments
          /\ (/\ resp.op = "availableTransitions"
              /\ resp.result = OK /\ resp'.result = OK
              /\ resp.c = resp'.c
              /\ roleOf(resp.by) = roleOf(resp'.by)
              /\ employeeTypeOf(resp.by) = employeeTypeOf(resp'.by))
               => resp'.list = resp.list]_vars

\* The reviewer has asked for the transitions of a case in PENDING_QC and
\* got the two the table gives a QC employee.
C18_Witness ==
  /\ resp.op = "availableTransitions"
  /\ resp.by = "qc1"
  /\ cases["X"].status = "PENDING_QC"
  /\ resp.list = <<"QC_REJECTED", "PENDING_CLIENT_REVIEW">>

C20_AssignKeepsStatus ==
  (resp.op = "assignCase" /\ resp.result \notin {ErrForbidden, ErrCaseNotFound})
    => /\ resp.result = OK
       /\ cases[resp.c].status = Last(resp.c).fromStatus

\* C21: every entry a status change appends records as fromStatus the
\* status the case had immediately before the step, so that each entry
\* starts where the entry before it ended.
C21_FromStatusIsStatusBefore ==
  [][\A c \in CaseIds :
       (Appends(c) /\ Appended(c).fromStatus # Null)
         => /\ Appended(c).fromStatus = cases[c].status
            /\ Len(workflowLogs[c]) > 0 => Appended(c).fromStatus = Last(c).toStatus]_vars

\* C22: a step in which a transition call fails (case not found, or the
\* invalid-transition error for a missing rule or an actor the rule does
\* not admit) leaves every case (status, refinementCount, assignees) and
\* every workflow log as it was.
C22_FailedTransitionChangesNothing ==
  [][(/\ resp'.op \in TransitionOps
      /\ resp'.result \in {ErrCaseNotFound, ErrInvalidTransition})
       => /\ cases' = cases
          /\ workflowLogs' = workflowLogs
          /\ payments' = payments]_vars

\* The client asked to approve a case that is still in design and was
\* refused; the case is as the designer's assignment left it.
C22_Witness ==
  /\ resp = Resp("transition", "X", "APPROVED", ErrInvalidTransition)
  /\ cases["X"].status = "IN_DESIGN"
  /\ cases["X"].designerId = "designer1"
  /\ Len(workflowLogs["X"]) = 3

Range(s) == {s[i] : i \in DOMAIN s}

\* C23: for every current status, role, employee type and target, the
\* target is listed by getAvailableTransitions exactly when
\* validateTransition accepts it; and every answer of the
\* available-transitions query lists exactly the targets that
\* transitionCaseStatus would accept on the case from the asking user.
C23_AvailableAgreesWithValidate ==
  /\ \A f \in CaseStatus, t \in CaseStatus, r \in UserRole, e \in EmployeeType \cup {Null} :
       (t \in Range(getAvailableTransitions(f, r, e))) <=> validateTransition(f, t, r, e)
  /\ (resp.op = "availableTransitions" /\ resp.result = OK)
       => \A t \in CaseStatus :
            (t \in Range(resp.list))
              <=> (transitionCheck(resp.c, t, roleOf(resp.by), employeeTypeOf(resp.by)) = OK)

\* The designer has asked for the transitions of a case in design and got
\* the one the service accepts from a designer.
C23_Witness ==
  /\ resp.op = "availableTransitions"
  /\ resp.by = "designer1"
  /\ cases["X"].status = "IN_DESIGN"
  /\ resp.list = <<"PENDING_QC">>
  /\ transitionCheck("X", "PENDING_QC", "EMPLOYEE", "DESIGNER") = OK

\* C24: for every pair of statuses, when validateTransition accepts an
\* employee of type DESIGNER or of type QC it accepts an employee of type
\* BOTH, and it accepts an employee without employee type for no pair; so
\* on every case transitionCaseStatus accepts from an employee of type
\* BOTH whatever it accepts from a designer or a reviewer, and refuses
\* every request of an employee without type.
C24_BothHasEveryCapability ==
  /\ \A f \in CaseStatus, t \in CaseStatus :
       /\ (\/ validateTransition(f, t, "EMPLOYEE", "DESIGNER")
           \/ validateTransition(f, t, "EMPLOYEE", "QC"))
            => validateTransition(f, t, "EMPLOYEE", "BOTH")
       /\ ~validateTransition(f, t, "EMPLOYEE", Null)
  /\ \A c \in CaseIds, t \in CaseStatus :
       cases[c].exists =>
         /\ (\/ transitionCheck(c, t, "EMPLOYEE", "DESIGNER") = OK
             \/ transitionCheck(c, t, "EMPLOYEE", "QC") = OK)
              => transitionCheck(c, t, "EMPLOYEE", "BOTH") = OK
         /\ transitionCheck(c, t, "EMPLOYEE", Null) # OK

\* The employee of type BOTH has made the designer's transition
\* IN_DESIGN -> PENDING_QC.
C24_Witness ==
  /\ resp = Resp("transition", "X", "PENDING_QC", OK)
  /\ Last("X").performedById = "both"
  /\ Last("X").fromStatus = "IN_DESIGN"
  /\ cases["X"].status = "PENDING_QC"

\* C25: the history of a case only grows: in every step the log of every
\* case keeps the entries it had, unchanged and in place.
C25_LogIsAppendOnly ==
  [][\A c \in CaseIds :
       /\ Len(workflowLogs'[c]) >= Len(workflowLogs[c])
       /\ SubSeq(workflowLogs'[c], 1, Len(workflowLogs[c])) = workflowLogs[c]]_vars

\* C26: the entry a request appends names the user who made the request
\* as its performer.
C26_PerformedByIsTheCaller ==
  [][\A p \in Procs, c \in CaseIds :
       (/\ reqs[p].pc # "idle"
        /\ reqs'[p].pc = "idle"
        /\ reqs[p].c = c
        /\ Appends(c))
         => Appended(c).performedById = reqs[p].u]_vars

\* The case a request is about, in the step that moves the request.
caseOf(p) == IF reqs[p].pc = "idle" THEN reqs'[p].c ELSE reqs[p].c

\* C27: a step changes no case other than the one its request is about:
\* the row and the history of every other case stay as they were.
C27_OtherCasesUntouched ==
  [][\A c \in CaseIds :
       (cases'[c] # cases[c] \/ workflowLogs'[c] # workflowLogs[c])
         => \E p \in Procs : reqs'[p] # reqs[p] /\ caseOf(p) = c]_vars

C27_Witness ==
  /\ resp = Resp("transition", "X", "OPENED", OK)
  /\ cases["X"].status = "OPENED"
  /\ cases["Y"].exists
  /\ cases["Y"].status = "PENDING_PAYMENT"
  /\ Len(workflowLogs["Y"]) = 1

\* C28: a case that is APPROVED or CANCELLED keeps its status and its
\* history in every step, whichever operation takes it.
C28_TerminalIsStable ==
  [][\A c \in CaseIds :
       (cases[c].exists /\ cases[c].status \in {"APPROVED", "CANCELLED"})
         => /\ cases'[c].status = cases[c].status
            /\ workflowLogs'[c] = workflowLogs[c]]_vars

\* C29: a payment opens its case at most once: a markPaymentCompleted
\* call that finishes on a payment which is already COMPLETED leaves the
\* case and its history as they are.
C29_PaymentOpensCaseOnce ==
  [][\A p \in Procs :
       (/\ reqs[p].pc = "complete:tx"
        /\ reqs'[p].pc = "idle"
        /\ payments[reqs[p].x].status = "COMPLETED")
         => /\ cases' = cases
            /\ workflowLogs' = workflowLogs]_vars

mayLeave(u) ==
  IF roleOf(u) = "CLIENT" THEN {"PENDING_CLIENT_REVIEW"}
  ELSE IF roleOf(u) = "ADMIN" THEN {"PENDING_PAYMENT", "OPENED"}
  ELSE IF employeeTypeOf(u) = "DESIGNER" THEN CaseStatus \ {"PENDING_QC"}
  ELSE IF employeeTypeOf(u) = "QC"
  THEN CaseStatus \ {"ASSIGNED", "IN_DESIGN", "QC_REJECTED", "CLIENT_REJECTED"}
  ELSE CaseStatus

\* C31: a transition request that changes the status of a case is made by
\* a user whose role and employee type may move a case out of the status
\* the case had: a designer never moves it out of PENDING_QC, a reviewer
\* never out of ASSIGNED, IN_DESIGN, QC_REJECTED or CLIENT_REJECTED, a
\* client only out of PENDING_CLIENT_REVIEW, an administrator only out of
\* PENDING_PAYMENT or OPENED.
C31_CapabilitiesAreSeparate ==
  [][\A p \in Procs :
       (/\ reqs[p].pc = "transition:tx"
        /\ reqs'[p] # reqs[p]
        /\ cases'[reqs[p].c].status # cases[reqs[p].c].status)
         => cases[reqs[p].c].status \in mayLeave(reqs[p].u)]_vars

\* A status change some user is allowed: an edge of the table that
\* validateTransition accepts for one of the users, or the approval of a
\* submitted case by the administrator.
authorizedStep(f, t) ==
  \/ \E u \in Users : validateTransition(f, t, roleOf(u), employeeTypeOf(u))
  \/ <<f, t>> = <<"PENDING_APPROVAL", "IN_DESIGN">>

\* The statuses from which APPROVED is at most n allowed changes away.
RECURSIVE withinSteps(_)
withinSteps(n) ==
  IF n = 0 THEN {"APPROVED"}
  ELSE LET W == withinSteps(n - 1)
       IN  W \cup {f \in CaseStatus : \E t \in W : authorizedStep(f, t)}

Far == Cardinality(CaseStatus)

\* The least number of allowed changes to APPROVED; Far + 1 when there is
\* no way.
stepsToApproved ==
  [s \in CaseStatus |->
     IF s \in withinSteps(Far)
     THEN Min({n \in 0..Far : s \in withinSteps(n)})
     ELSE Far + 1]

\* A request on case c that is accepted and whose target is nearer to
\* APPROVED than the case's status.
Forward(c) ==
  \/ \E u \in Users, t \in CaseStatus :
       /\ TransitionRoute(1, c, t, u)
       /\ reqs'[1].pc = "transition:tx"
       /\ stepsToApproved[t] < stepsToApproved[cases[c].status]
  \/ \E a \in Assignments, u \in Users :
       /\ ApprovePaymentAndAssignRead(1, c, a[1], a[2], u)
       /\ reqs'[1].pc = "approve:tx"
       /\ stepsToApproved["IN_DESIGN"] < stepsToApproved[cases[c].status]

\* C32: no status a case can be in, other than APPROVED and CANCELLED, is
\* a dead end: whenever no request is in flight, some user has a request
\* on the case that is accepted and brings it nearer to APPROVED, and the
\* accepted request, once its write can run, sets the status it asked for.
C32_NoDeadEnd ==
  \A c \in CaseIds :
    (cases[c].exists /\ cases[c].status \notin {"APPROVED", "CANCELLED"})
      => /\ reqs[1].pc = "idle" => ENABLED Forward(c)
         /\ (reqs[1].pc = "transition:tx" /\ reqs[1].c = c /\ HasRoom(c))
              => ENABLED (TransitionTx(1) /\ cases'[c].status = reqs[1].to)
         /\ (reqs[1].pc = "approve:tx" /\ reqs[1].c = c /\ HasRoom(c))
              => ENABLED (ApprovePaymentAndAssignTx(1) /\ cases'[c].status = "IN_DESIGN")

\* The client has sent the design back and no request is in flight; the
\* designer's rework is the way on.
C32_Witness ==
  /\ cases["X"].status = "CLIENT_REJECTED"
  /\ reqs[1].pc = "idle"
  /\ stepsToApproved["CLIENT_REJECTED"] = 4
  /\ ENABLED Forward("X")

Max(S) == CHOOSE x \in S : \A y \in S : y <= x

\* validateTransition reading the table from its end: the last rule for
\* the pair decides.
validateWithLastRule(currentStatus, newStatus, userRole, employeeType) ==
  IF rulesFor(currentStatus, newStatus) = {} THEN FALSE
  ELSE LET transition == statusTransitions[Max(rulesFor(currentStatus, newStatus))]
       IN  IF userRole \notin transition.allowedRoles THEN FALSE
           ELSE IF transition.hasEmployeeTypes /\ userRole = "EMPLOYEE"
                THEN employeeType # Null
                     /\ employeeType \in transition.allowedEmployeeTypes
                ELSE TRUE

\* C33: no two rules of the table have the same (from, to) pair, and for
\* every case, requested status, role and employee type the transition is
\* accepted exactly when it is accepted with the table read in the
\* opposite order.
C33_OneRulePerPair ==
  /\ \A i \in DOMAIN statusTransitions, j \in DOMAIN statusTransitions :
       (/\ statusTransitions[i].from = statusTransitions[j].from
        /\ statusTransitions[i].to = statusTransitions[j].to) => i = j
  /\ \A c \in CaseIds, t \in CaseStatus, r \in UserRole, e \in EmployeeType \cup {Null} :
       cases[c].exists
         => ((transitionCheck(c, t, r, e) = OK)
               <=> validateWithLastRule(cases[c].status, t, r, e))

\* The administrator's PENDING_PAYMENT -> OPENED request has been
\* accepted under the one rule the table has for the pair.
C33_Witness ==
  /\ resp = Resp("transition", "X", "OPENED", OK)
  /\ Last("X").performedById = "admin"
  /\ Cardinality(rulesFor("PENDING_PAYMENT", "OPENED")) = 1

====
